---- MODULE Spec2Model ----
(***************************************************************************)
(* Render orchestration and browser-session state machine of VeoFlow       *)
(* Studio: the persisted Scene rows, the project page that submits render  *)
(* requests, the worker-side render task (session acquisition, navigation  *)
(* of the Flow UI, prompt injection, generation trigger, completion        *)
(* polling) and the error classifier used by the completion poll.          *)
(***************************************************************************)
EXTENDS Integers, Sequences, FiniteSets, TLC

\* ------------------------------------------------------------------ bounds
\* Number of render tasks that can be submitted in one behaviour.
MaxTasks == 2
\* Number of scenes the server creates in one behaviour.
MaxScenes == 2
\* Longest project list the project store is given.
MaxProjects == 3

\* ------------------------------------------------------- program constants
\* Navigation retries ("Increased retries from 3 to 5 for navigation").
MaxNavAttempts == 5
\* No error detection in the first 10 seconds after the trigger.
GracePeriod == 10
\* "Wait 2 seconds after detecting error. Check again".
SettleDelay == 2
\* Interval of the completion poll, in seconds.
PollInterval == 2
\* wait_for_completion gives up after 5 minutes (300000ms).
CompletionTimeout == 300
\* "Require error messages to be at least 10 characters long".
MinErrorLen == 10

TaskIds == 1..MaxTasks
NoTask == 0

\* The two scenes of test-project-001 and their prompts.
Scenes == {"scene1", "scene2"}
Prompt(s) == IF s = "scene1" THEN <<"a", "lion", "walking">> ELSE <<"a", "bird", "fly">>
NoText == <<>>
\* Whatever an editor that was not created by the running task still holds.
LeftoverText == <<"leftover">>

\* Saved browser profiles: one logged in, one whose authentication cookies
\* are gone, one whose Default/Cookies structure is missing.
Profiles == {"good", "stale", "corrupt"}
HasCookieJar(p) == p # "corrupt"
AuthCookieCount(p) == IF p = "good" THEN 32 ELSE 0
MinAuthCookies == 1

\* Storage paths a browser context can be opened on.
ProfilePath(p) == <<"profile", p>>
\* Mutant: the worker opens the active profile's own directory.
WorkerProfilePath_shared(t, p) == ProfilePath(p)
\* worker_celery_<task_id>: a private copy of the profile, named by task id.
WorkerProfilePath(t, p) == <<"worker_celery", t>>
NoPath == <<"none">>
Paths == {ProfilePath(p) : p \in Profiles} \cup {<<"worker_celery", t>> : t \in TaskIds}

NoError == <<>>

\* ---------------------------------------------------------- error classifier
\* Messages are sequences of words; their length counts the separating blanks.
RECURSIVE CharLen(_)
CharLen(msg) ==
    IF msg = <<>> THEN 0
    ELSE Len(Head(msg)) + (IF Len(msg) > 1 THEN 1 ELSE 0) + CharLen(Tail(msg))

Lower(w) ==
    CASE w = "Flow" -> "flow"
      [] w = "Error" -> "error"
      [] w = "Failed" -> "failed"
      [] w = "Loading" -> "loading"
      [] w = "Generation" -> "generation"
      [] w = "Something" -> "something"
      [] w = "You" -> "you"
      [] w = "AI" -> "ai"
      [] w = "Unfortunately," -> "unfortunately,"
      [] OTHER -> w
LowerMsg(msg) == [i \in DOMAIN msg |-> Lower(msg[i])]

\* Generic words that are no error message when they stand alone.
GenericWords == {"flow", "error", "failed", "loading"}
IsGeneric(msg) == Len(msg) = 1 /\ Lower(msg[1]) \in GenericWords

\* Known error messages and the account-popup patterns.
FatalPatterns ==
    { <<"something", "went", "wrong">>,
      <<"you", "need", "more", "ai", "credits">>,
      <<"generation", "failed">>,
      <<"unfortunately,", "an", "error", "occurred!">>,
      <<"rat", "tiec">> }
Contains(msg, pat) ==
    \E i \in 1..Len(msg) : i + Len(pat) - 1 <= Len(msg) /\ SubSeq(msg, i, i + Len(pat) - 1) = pat
MatchesFatal(msg) == \E pat \in FatalPatterns : Contains(LowerMsg(msg), pat)

\* Mutant: any length will do.
IsSubstantive_anyLength(msg) == ~IsGeneric(msg)
IsSubstantive(msg) == CharLen(msg) >= MinErrorLen /\ ~IsGeneric(msg)

Ignore == [kind |-> "Ignore", message |-> NoError]
Persistent(msg) == [kind |-> "Persistent", message |-> msg]

\* What a re-observed message amounts to.
Severity(msg) ==
    IF ~IsSubstantive(msg) THEN Ignore
    ELSE IF MatchesFatal(msg) THEN Persistent(msg)
    ELSE Ignore

\* Mutant: no grace period.
InGrace_none(elapsed) == FALSE
InGrace(elapsed) == elapsed < GracePeriod

\* Mutant: the first sighting is enough.
StillThere_first(sig) == TRUE
\* The message is on the page again SettleDelay after it was first seen.
StillThere(sig) == sig.recheck

\* classify(signal): sig.elapsed is the time since the trigger at which the
\* message was seen, sig.recheck whether the re-check found it again.
classify(sig) ==
    IF InGrace(sig.elapsed) THEN Ignore
    ELSE IF ~StillThere(sig) THEN Ignore
    ELSE Severity(sig.msg)

\* ------------------------------------------------------------ completion poll
Never == 0 - 1
\* A page timeline: when the finished video appears (or Never), and during
\* which interval [errFrom, errTo) the message msg is on the page.
ArtifactVisible(tl, now) == tl.artifactAt # Never /\ tl.artifactAt <= now
ErrorVisible(tl, now) == tl.errFrom <= now /\ now < tl.errTo

Polling == [kind |-> "Polling", message |-> NoError]
Artifact == [kind |-> "Artifact", message |-> NoError]
Failure(msg) == [kind |-> "Failure", message |-> msg]

\* Mutant: the bound is taken twice as long.
TimeUp_late(elapsed) == elapsed >= 2 * CompletionTimeout
\* The loop's time is up.
TimeUp(elapsed) == elapsed >= CompletionTimeout

\* One iteration of the poll loop of wait_for_completion at time `elapsed`:
\* what it returns (Polling: nothing yet), when the next iteration runs,
\* when the message it last classified was first seen (Never: none), and
\* whether it looked for the video (polled).
PollStep(tl, elapsed) ==
    IF TimeUp(elapsed)
      THEN [res |-> Failure(<<"GenerationTimeout">>), elapsed |-> elapsed, seen |-> Never,
            polled |-> FALSE]
    ELSE IF ArtifactVisible(tl, elapsed)
      THEN [res |-> Artifact, elapsed |-> elapsed, seen |-> Never, polled |-> TRUE]
    ELSE IF InGrace(elapsed)
      THEN [res |-> Polling, elapsed |-> elapsed + PollInterval, seen |-> Never, polled |-> TRUE]
    ELSE IF ErrorVisible(tl, elapsed)
      THEN LET c == classify([msg |-> tl.msg, elapsed |-> elapsed,
                              recheck |-> ErrorVisible(tl, elapsed + SettleDelay)])
           IN  IF c.kind = "Persistent"
                 THEN [res |-> Failure(c.message), elapsed |-> elapsed + SettleDelay,
                       seen |-> elapsed, polled |-> TRUE]
                 ELSE [res |-> Polling, elapsed |-> elapsed + SettleDelay + PollInterval,
                       seen |-> elapsed, polled |-> TRUE]
    ELSE [res |-> Polling, elapsed |-> elapsed + PollInterval, seen |-> Never, polled |-> TRUE]

\* Messages a page can show.
Messages ==
    { <<"Flow">>, <<"Error">>, <<"rat", "tiec">>,
      <<"Loading", "your", "project">>,
      <<"Generation", "failed">>,
      <<"You", "need", "more", "AI", "credits">>,
      <<"Unfortunately,", "an", "error", "occurred!">> }
\* Moments at which a video appears or a message comes and goes.
ArtifactTimes == {0, 6, 12, 150, 298, 300, Never}
ErrorWindows == { <<0, 0>>, <<0, 6>>, <<4, 11>>, <<8, 14>>, <<10, 11>>, <<10, 13>>,
                  <<20, 400>>, <<297, 400>> }
Timelines ==
    { [artifactAt |-> a, errFrom |-> w[1], errTo |-> w[2], msg |-> m] :
        a \in ArtifactTimes, w \in ErrorWindows, m \in Messages }
Signals ==
    { [msg |-> m, elapsed |-> e, recheck |-> r] :
        m \in Messages, e \in {0, 2, 4, 8, 9, 10, 12, 298}, r \in BOOLEAN }

\* Messages the Flow page of a render task shows.
PageErrors == { <<"Flow">>, <<"You", "need", "more", "AI", "credits">> }

\* What wait_for_completion can return: a video (only in a project with
\* generated media), a timeout, or a persistent error of the page.
PollOutcomes(hasMedia) ==
    (IF hasMedia THEN {Artifact} ELSE {})
      \cup {Failure(<<"GenerationTimeout">>)}
      \cup {Failure(m) : m \in {x \in PageErrors : Severity(x).kind = "Persistent"}}

VARIABLES
    scenes,       \* persisted Scene rows: status, video, error
    shown,        \* status of each scene as the project page displays it
    active,       \* the profile store's active-profile pointer
    submitted,    \* number of render tasks submitted so far
    pc,           \* orchestrator state of each task
    sceneOf,      \* the scene a task renders
    sess,         \* storage path of the task's open session, or NoPath
    navAttempts,  \* navigation attempts made by the task
    browser,      \* browser state per storage path
    probe,        \* a page observation and what classify made of it
    run,          \* a page timeline, the progress of wait_for_completion on it
                  \* (polled: when it last looked for the video) and its result
    store,        \* the profile store: which profiles exist, their is_active flags
    holder,       \* the profile each task's session was opened from, or NoProfile
    profiles,     \* the profile list as ProfileManager last loaded it
    reply,        \* the profile store's answer to the last request
    nav,          \* a Flow site behaviour and the progress of navigate_to_flow on it
    page,         \* the project page: the scene list it holds, its refetch timers,
                  \* the render requests it sent
    hook,         \* per task: the task queue's state of it and what useRenderTask
                  \* holds of it
    wizard,       \* the script wizard: its step, the query results it gates on
    dialog,       \* the guided login dialog: its flags, requests in flight, the
                  \* browser's login state
    sceneStore,   \* the scenes on the server and the scene store's list
    projectStore  \* the project store: projects, currentProject, the last call

frontVars == <<wizard, dialog, sceneStore, projectStore>>
orchVars == <<scenes, shown, active, submitted, pc, sceneOf, sess, navAttempts, browser,
              store, holder, profiles, reply>>
vars == <<scenes, shown, active, submitted, pc, sceneOf, sess, navAttempts, browser, probe, run,
          store, holder, profiles, reply, nav, page, hook, wizard, dialog, sceneStore,
          projectStore>>

Terminal == {"COMPLETED", "FAILED", "KILLED"}
Running == {"QUEUED", "SESSION_ACQUIRED", "RETRYING", "NAVIGATED", "PROMPT_INJECTED",
            "TRIGGER_RETRY", "GENERATION_TRIGGERED", "AWAITING_COMPLETION"}

\* A Flow project as the editor shows it: the task whose ensure_new_project
\* call created it, the text in the prompt field, the prompts submitted for
\* generation in it.
NoProject == [owner |-> NoTask, text |-> NoText, subs |-> <<>>]
\* A browser context: viaGallery records that ensure_new_project left an
\* open editor through the Home/Gallery button before it opened this one.
\* authed: the context was opened on a cookie store that holds
\* authentication cookies.
ClosedBrowser == [open |-> FALSE, pageAlive |-> FALSE, view |-> "unknown",
                  viaGallery |-> FALSE, authed |-> FALSE, proj |-> NoProject]

\* No session, so no profile held.
NoProfile == "none"
\* A profile record that has been deleted or not yet created.
NoRecord == [exists |-> FALSE, is_active |-> FALSE]
NoReply == [op |-> "none", id |-> "none", res |-> "none"]

\* query.data before the first answer.
NoData == "undefined"
\* loginStatus before the first answer of a status check (null).
NoStatus == [checked |-> FALSE, gmail_logged_in |-> FALSE, flow_logged_in |-> FALSE,
             both_logged_in |-> FALSE]
\* What has just happened in the dialog.
Did(ev, res) == [ev |-> ev, res |-> res]
\* No navigation in progress.
IdleNav == [site |-> [headless |-> TRUE, redirect |-> FALSE, loginAt |-> 0 - 1,
                      backOnLogin |-> FALSE, popup |-> "none", creditFails |-> 0],
            stage |-> "idle", page |-> "blank", waited |-> 0, verified |-> FALSE,
            renavigated |-> FALSE, dismissed |-> FALSE, reloads |-> 0, warned |-> FALSE,
            res |-> "none"]

Init ==
    /\ scenes = [s \in Scenes |-> [status |-> "pending", video |-> NoText, error |-> NoError]]
    /\ shown = [s \in Scenes |-> "pending"]
    /\ active \in Profiles
    /\ submitted = 0
    /\ pc = [t \in TaskIds |-> "idle"]
    /\ sceneOf = [t \in TaskIds |-> "scene1"]
    /\ sess = [t \in TaskIds |-> NoPath]
    /\ navAttempts = [t \in TaskIds |-> 0]
    /\ browser = [p \in Paths |-> ClosedBrowser]
    /\ probe = [sig |-> [msg |-> <<"Flow">>, elapsed |-> 0, recheck |-> FALSE], cls |-> Ignore]
    /\ run = [tl |-> [artifactAt |-> 0, errFrom |-> 0, errTo |-> 0, msg |-> <<"Flow">>],
              elapsed |-> 0, seen |-> Never, polled |-> Never, res |-> Artifact]
    /\ store = [p \in Profiles |-> [exists |-> TRUE, is_active |-> (p = active)]]
    /\ holder = [t \in TaskIds |-> NoProfile]
    /\ profiles = store
    /\ reply = NoReply
    /\ nav = IdleNav
    /\ page = [exists |-> Scenes, data |-> [s \in Scenes |-> "pending"], timers |-> 1,
               queued |-> {}, last |-> [ev |-> "mount", sent |-> FALSE, confirmed |-> FALSE]]
    /\ hook = [t \in TaskIds |-> [mounted |-> FALSE, server |-> "PENDING", data |-> NoData,
                                   interval |-> 0, last |-> "none"]]
    /\ wizard = [currentStep |-> "parameters", generationResult |-> FALSE, script |-> FALSE,
                 characters |-> "empty", scenes |-> "empty",
                 last |-> [ev |-> "mount", from |-> 0, to |-> 0, moved |-> FALSE]]
    /\ dialog = [open |-> TRUE, gmailOpened |-> FALSE, flowOpened |-> FALSE,
                 openingGmail |-> FALSE, openingFlow |-> FALSE, checkingStatus |-> FALSE,
                 loginStatus |-> NoStatus, reported |-> "nothing", confirming |-> FALSE,
                 onSuccess |-> 0, onClose |-> {}, last |-> Did("mount", "none")]
    /\ sceneStore = [server |-> [i \in 1..MaxScenes |->
                                   [exists |-> FALSE, prompt |-> "a", status |-> "pending"]],
                     made |-> 0, scenes |-> <<>>, last |-> "mount"]
    /\ projectStore = [projects |-> <<>>, currentProject |-> [id |-> "null", name |-> "null"],
                       last |-> [op |-> "create", id |-> "none", updates |-> [d \in {} |-> "a"]]]

\* ------------------------------------------------------------ project page
\* The Render button of a scene card is disabled while the displayed status
\* is rendering or completed.
\* Mutant: the button is never disabled.
RenderDisabled_none(st) == FALSE
RenderDisabled(st) == st = "rendering" \/ st = "completed"

\* The scenes query refetches and the page shows the persisted status.
Refetch(s) ==
    /\ submitted < MaxTasks
    /\ shown[s] # scenes[s].status
    /\ shown' = [shown EXCEPT ![s] = scenes[s].status]
    /\ UNCHANGED <<scenes, active, submitted, pc, sceneOf, sess, holder, navAttempts, browser, probe, run, nav, page, hook, store, profiles, reply, frontVars>>

\* handleRender -> api.scenes.render: a new task is queued for the scene.
SubmitRender(s) ==
    /\ ~RenderDisabled(shown[s])
    /\ submitted < MaxTasks
    /\ submitted' = submitted + 1
    /\ pc' = [pc EXCEPT ![submitted + 1] = "QUEUED"]
    /\ sceneOf' = [sceneOf EXCEPT ![submitted + 1] = s]
    /\ UNCHANGED <<scenes, shown, active, sess, holder, navAttempts, browser, probe, run, nav, page, hook, store, profiles, reply, frontVars>>

\* Mutant: the profile is flagged active, the others are left as they are.
Activate_keep(st, id) == [st EXCEPT ![id].is_active = TRUE]
\* setActive(id) in the store: id becomes the one active profile.
Activate(st, id) == [q \in DOMAIN st |-> [st[q] EXCEPT !.is_active = (q = id)]]

\* Mutant: open sessions follow the active-profile pointer.
SetActive_live(p) ==
    /\ \E t \in TaskIds : pc[t] \in {"idle", "QUEUED"}
    /\ active # p
    /\ active' = p
    /\ store' = Activate(store, p)
    /\ profiles' = store'
    /\ holder' = [t \in TaskIds |-> IF holder[t] = NoProfile THEN NoProfile ELSE p]
    /\ UNCHANGED <<scenes, shown, submitted, pc, sceneOf, sess, navAttempts, browser, frontVars>>
    /\ UNCHANGED <<probe, run, nav, page, hook, reply, frontVars>>
\* The user makes another profile the active one; the profile list is
\* loaded again.
SetActive(p) ==
    /\ \E t \in TaskIds : pc[t] \in {"idle", "QUEUED"}
    /\ active # p
    /\ active' = p
    /\ store' = Activate(store, p)
    /\ profiles' = store'
    /\ UNCHANGED <<scenes, shown, submitted, pc, sceneOf, sess, holder, navAttempts, browser, frontVars>>
    /\ UNCHANGED <<probe, run, nav, page, hook, reply, frontVars>>

\* ------------------------------------------------------------- status row
\* Mutant: the final write goes through the scene object queried when the
\* task began.
RequeriedBeforeFinalWrite_stale == FALSE
\* After the asynchronous render the scene is queried again before its
\* status is set.
RequeriedBeforeFinalWrite == TRUE

\* The object a status is set on is attached to the database session: the
\* one queried at the start is, until asynchronous code has run, and a
\* re-queried one is. A commit on a detached object changes nothing.
Attached(st) == st = "rendering" \/ RequeriedBeforeFinalWrite

\* The worker sets a status on its scene object and commits.
\* Mutant: a write that carries no error leaves the old one in the row.
WriteStatus_keepError(t, st, video, err) ==
    scenes' = [scenes EXCEPT ![sceneOf[t]] =
                 IF Attached(st)
                   THEN [status |-> st, video |-> video,
                         error |-> IF err = NoError THEN @.error ELSE err]
                   ELSE @]
WriteStatus(t, st, video, err) ==
    scenes' = [scenes EXCEPT ![sceneOf[t]] =
                 IF Attached(st) THEN [status |-> st, video |-> video, error |-> err] ELSE @]

\* Mutant: the browser context is left open.
Release_leak(t) == UNCHANGED <<sess, holder, navAttempts, browser, frontVars>>
\* Closing the task's browser context; the navigation loop is over.
Release(t) ==
    /\ sess' = [sess EXCEPT ![t] = NoPath]
    /\ holder' = [holder EXCEPT ![t] = NoProfile]
    /\ navAttempts' = [navAttempts EXCEPT ![t] = 0]
    /\ browser' = IF sess[t] = NoPath THEN browser
                  ELSE [browser EXCEPT ![sess[t]] = ClosedBrowser]

\* Mutant: the failure is recorded without its message.
Fail_noMessage(t, msg) ==
    /\ pc' = [pc EXCEPT ![t] = "FAILED"]
    /\ WriteStatus(t, "failed", scenes[sceneOf[t]].video, NoError)
    /\ Release(t)
\* Failure of the task: the session is closed, the row becomes failed with
\* the captured message, nothing else is attempted.
Fail(t, msg) ==
    /\ pc' = [pc EXCEPT ![t] = "FAILED"]
    /\ WriteStatus(t, "failed", scenes[sceneOf[t]].video, msg)
    /\ Release(t)

\* Mutant: completed is written without the video.
Complete_noVideo(t, video) ==
    /\ pc' = [pc EXCEPT ![t] = "COMPLETED"]
    /\ WriteStatus(t, "completed", NoText, NoError)
    /\ Release(t)
\* Success of the task: the row becomes completed with the video.
Complete(t, video) ==
    /\ pc' = [pc EXCEPT ![t] = "COMPLETED"]
    /\ WriteStatus(t, "completed", video, NoError)
    /\ Release(t)

\* --------------------------------------------------------- session acquirer
\* open(profile): reads the active-profile pointer once, checks the cookie
\* jar, opens a context on the task's path. The authentication cookies are
\* verified later, by navigate_to_flow, and their absence is only logged.
AcquireSession(t) ==
    /\ pc[t] = "QUEUED"
    /\ UNCHANGED <<shown, active, submitted, sceneOf, probe, run, nav, page, hook, store, profiles, reply, frontVars>>
    /\ IF ~HasCookieJar(active)
         THEN Fail(t, <<"ProfileCorrupt">>)
       ELSE LET path == WorkerProfilePath(t, active) IN
            /\ sess' = [sess EXCEPT ![t] = path]
            /\ holder' = [holder EXCEPT ![t] = active]
            /\ browser' = [browser EXCEPT ![path] =
                              [@ EXCEPT !.open = TRUE, !.pageAlive = TRUE, !.view = "unknown",
                                        !.authed = AuthCookieCount(active) >= MinAuthCookies]]
            /\ pc' = [pc EXCEPT ![t] = "SESSION_ACQUIRED"]
            /\ navAttempts' = [navAttempts EXCEPT ![t] = 1]
            /\ WriteStatus(t, "rendering", scenes[sceneOf[t]].video, NoError)

\* ----------------------------------------------------- navigation controller
\* Render tasks always ask for a fresh editor.
ForceNew == TRUE

\* The editor the page may already be in: a project left by an earlier call
\* or an earlier scene, with its text and its generations.
LeftoverProject == [owner |-> NoTask, text |-> LeftoverText, subs |-> <<LeftoverText>>]

\* Where Flow takes the page: without authentication cookies (a warning is
\* logged) to the login page; with them to the gallery or an editor, or to
\* the login page or an account popup all the same.
Landings(authed) ==
    IF authed THEN {"gallery", "editor", "login", "popup"} ELSE {"login"}

\* navigate_to_flow: the page lands in the gallery or in an editor, is
\* redirected to the login page (headless: LoginRequired), or shows an
\* account popup that stays (AccountPopupError).
NavigateToFlow(t) ==
    /\ pc[t] = "SESSION_ACQUIRED"
    /\ browser[sess[t]].pageAlive
    /\ browser[sess[t]].view = "unknown"
    /\ UNCHANGED <<shown, active, submitted, sceneOf, probe, run, nav, page, hook, store, profiles, reply, frontVars>>
    /\ \E landing \in Landings(browser[sess[t]].authed) :
         IF landing = "login" THEN Fail(t, <<"LoginRequired">>)
         ELSE IF landing = "popup" THEN Fail(t, <<"AccountPopupError">>)
         ELSE /\ browser' = [browser EXCEPT ![sess[t]] =
                               [view |-> landing, open |-> @.open, pageAlive |-> @.pageAlive,
                                viaGallery |-> FALSE, authed |-> @.authed,
                                proj |-> IF landing = "editor" THEN LeftoverProject ELSE NoProject]]
              /\ UNCHANGED <<scenes, pc, sess, holder, navAttempts, frontVars>>

\* Mutant: force_new is not honoured when the page is already in an editor.
NeedsGallery_reuse(view, forceNew) == FALSE
\* ensure_new_project: already in an editor view and force_new=True.
NeedsGallery(view, forceNew) == view = "editor" /\ forceNew

\* ensure_new_project: from an editor with force_new=True, first the
\* Home/Gallery button (else the Flow URL); in the gallery, "New project"
\* opens a fresh editor. An editor left untouched keeps its project. The
\* navigation retry loop ends here.
EnsureNewProject(t) ==
    /\ pc[t] = "SESSION_ACQUIRED"
    /\ browser[sess[t]].pageAlive
    /\ browser[sess[t]].view \in {"gallery", "editor"}
    /\ LET b == browser[sess[t]]
           toGallery == NeedsGallery(b.view, ForceNew)
           inGallery == toGallery \/ b.view = "gallery"
       IN  browser' = [browser EXCEPT ![sess[t]] =
                          [b EXCEPT !.view = "editor",
                                    !.viaGallery = toGallery,
                                    !.proj = IF inGallery
                                               THEN [owner |-> t, text |-> NoText, subs |-> <<>>]
                                               ELSE b.proj]]
    /\ pc' = [pc EXCEPT ![t] = "NAVIGATED"]
    /\ navAttempts' = [navAttempts EXCEPT ![t] = 0]
    /\ UNCHANGED <<scenes, shown, active, submitted, sceneOf, sess, holder, probe, run, nav, page, hook, store, profiles, reply, frontVars>>

\* Mutant: no limit on navigation attempts.
NavRetryAllowed_unbounded(n) == TRUE
NavRetryAllowed(n) == n < MaxNavAttempts

\* "Page closed - needs new page" during navigation: retry while attempts
\* remain, fail when they are used up.
NavPageClosed(t) ==
    /\ pc[t] = "SESSION_ACQUIRED"
    /\ browser[sess[t]].pageAlive
    /\ UNCHANGED <<shown, active, submitted, sceneOf, probe, run, nav, page, hook, store, profiles, reply, frontVars>>
    /\ IF NavRetryAllowed(navAttempts[t])
         THEN /\ browser' = [browser EXCEPT ![sess[t]] =
                               [@ EXCEPT !.pageAlive = FALSE, !.view = "unknown",
                                         !.viaGallery = FALSE, !.proj = NoProject]]
              /\ pc' = [pc EXCEPT ![t] = "RETRYING"]
              /\ UNCHANGED <<scenes, sess, holder, navAttempts, frontVars>>
         ELSE Fail(t, <<"NavigationFailed">>)

\* The page is recreated (and left 2s to stabilise) before the next attempt.
RecreatePage(t) ==
    /\ pc[t] = "RETRYING"
    /\ browser' = [browser EXCEPT ![sess[t]].pageAlive = TRUE]
    /\ navAttempts' = [navAttempts EXCEPT ![t] = @ + 1]
    /\ pc' = [pc EXCEPT ![t] = "SESSION_ACQUIRED"]
    /\ UNCHANGED <<scenes, shown, active, submitted, sceneOf, sess, holder, probe, run, nav, page, hook, store, profiles, reply, frontVars>>

\* --------------------------------------------------------- generation driver
\* inject(session, prompt): fills the prompt field, or finds no usable field.
\* Mutant: the prompt is typed as soon as the page is there, whether or
\* not navigation has ended in an editor.
InjectPrompt_early(t) ==
    /\ pc[t] \in {"SESSION_ACQUIRED", "NAVIGATED"}
    /\ browser[sess[t]].pageAlive
    /\ browser' = [browser EXCEPT ![sess[t]].proj.text = Prompt(sceneOf[t]),
                                   ![sess[t]].viaGallery = FALSE]
    /\ pc' = [pc EXCEPT ![t] = "PROMPT_INJECTED"]
    /\ UNCHANGED <<scenes, sess, holder, navAttempts, frontVars>>
    /\ UNCHANGED <<shown, active, submitted, sceneOf, probe, run, nav, page, hook, store, profiles, reply, frontVars>>
\* inject(session, prompt): types the scene's prompt into the editor's field.
InjectPrompt(t) ==
    /\ pc[t] = "NAVIGATED"
    /\ UNCHANGED <<shown, active, submitted, sceneOf, probe, run, nav, page, hook, store, profiles, reply, frontVars>>
    /\ \E found \in BOOLEAN :
         IF found
           THEN /\ browser' = [browser EXCEPT ![sess[t]].proj.text = Prompt(sceneOf[t]),
                                               ![sess[t]].viaGallery = FALSE]
                /\ pc' = [pc EXCEPT ![t] = "PROMPT_INJECTED"]
                /\ UNCHANGED <<scenes, sess, holder, navAttempts, frontVars>>
           ELSE Fail(t, <<"InjectFailed">>)

\* Enter in the prompt field: when the UI takes it, whatever the field holds
\* is submitted for generation and the field is cleared.
PressEnter(proj, accepted) ==
    IF accepted THEN [proj EXCEPT !.subs = Append(@, proj.text), !.text = NoText] ELSE proj

\* Mutant: a trigger that reports no start ends the task.
AfterTrigger_abort(started) == IF started THEN "GENERATION_TRIGGERED" ELSE "FAILED"
\* "if not started: re-injecting prompt and retrying once".
AfterTrigger(started) == IF started THEN "GENERATION_TRIGGERED" ELSE "TRIGGER_RETRY"

\* trigger(session): submits and reports whether generation visibly started.
TriggerGeneration(t) ==
    /\ pc[t] = "PROMPT_INJECTED"
    /\ \E accepted \in BOOLEAN, started \in BOOLEAN :
         /\ browser' = [browser EXCEPT ![sess[t]].proj = PressEnter(@, accepted)]
         /\ pc' = [pc EXCEPT ![t] = AfterTrigger(started)]
    /\ UNCHANGED <<scenes, shown, active, submitted, sceneOf, sess, holder, navAttempts, probe, run, nav, page, hook, store, profiles, reply, frontVars>>

\* "Generation did not start; re-injecting prompt and retrying once", then
\* on to wait_for_completion whatever the detectors say.
RetryTrigger(t) ==
    /\ pc[t] = "TRIGGER_RETRY"
    /\ \E accepted \in BOOLEAN :
         browser' = [browser EXCEPT ![sess[t]].proj =
                        PressEnter([@ EXCEPT !.text = Prompt(sceneOf[t])], accepted)]
    /\ pc' = [pc EXCEPT ![t] = "GENERATION_TRIGGERED"]
    /\ UNCHANGED <<scenes, shown, active, submitted, sceneOf, sess, holder, navAttempts, probe, run, nav, page, hook, store, profiles, reply, frontVars>>

\* The orchestrator enters the completion poll loop.
StartPolling(t) ==
    /\ pc[t] = "GENERATION_TRIGGERED"
    /\ pc' = [pc EXCEPT ![t] = "AWAITING_COMPLETION"]
    /\ UNCHANGED <<scenes, shown, active, submitted, sceneOf, sess, holder, navAttempts, browser, probe, run, nav, page, hook, store, profiles, reply, frontVars>>

\* wait_for_completion on the task's page, then the final status write. The
\* video found is one of the generations of the open project.
AwaitCompletion(t) ==
    /\ pc[t] = "AWAITING_COMPLETION"
    /\ UNCHANGED <<shown, active, submitted, sceneOf, probe, run, nav, page, hook, store, profiles, reply, frontVars>>
    /\ LET proj == browser[sess[t]].proj IN
       \E out \in PollOutcomes(proj.subs # <<>>) :
         IF out.kind = "Artifact"
           THEN \E i \in DOMAIN proj.subs : Complete(t, proj.subs[i])
           ELSE Fail(t, out.message)

\* ------------------------------------------------------ cancellation, limits
\* Mutant: the cancelled worker is dropped where it stands.
Cancel_abandon(t) ==
    /\ pc[t] \in Running
    /\ pc' = [pc EXCEPT ![t] = "FAILED"]
    /\ UNCHANGED <<scenes, sess, holder, navAttempts, browser, frontVars>>
    /\ UNCHANGED <<shown, active, submitted, sceneOf, probe, run, nav, page, hook, store, profiles, reply, frontVars>>
\* An external cancel: the session is released, the row is marked failed.
Cancel(t) ==
    /\ pc[t] \in Running
    /\ Fail(t, <<"CancelledByUser">>)
    /\ UNCHANGED <<shown, active, submitted, sceneOf, probe, run, nav, page, hook, store, profiles, reply, frontVars>>

\* Hard time limit: the worker process is killed (SIGKILL); the scene row
\* keeps the status it had.
Kill(t) ==
    /\ pc[t] \in Running \ {"QUEUED"}
    /\ pc' = [pc EXCEPT ![t] = "KILLED"]
    /\ Release(t)
    /\ UNCHANGED <<scenes, shown, active, submitted, sceneOf, probe, run, nav, page, hook, store, profiles, reply, frontVars>>

Next ==
    \/ \E s \in Scenes : Refetch(s)
    \/ \E s \in Scenes : SubmitRender(s)
    \/ \E p \in Profiles : SetActive(p)
    \/ \E t \in TaskIds : AcquireSession(t)
    \/ \E t \in TaskIds : NavigateToFlow(t)
    \/ \E t \in TaskIds : EnsureNewProject(t)
    \/ \E t \in TaskIds : NavPageClosed(t)
    \/ \E t \in TaskIds : RecreatePage(t)
    \/ \E t \in TaskIds : InjectPrompt(t)
    \/ \E t \in TaskIds : TriggerGeneration(t)
    \/ \E t \in TaskIds : RetryTrigger(t)
    \/ \E t \in TaskIds : StartPolling(t)
    \/ \E t \in TaskIds : AwaitCompletion(t)
    \/ \E t \in TaskIds : Cancel(t)
    \/ \E t \in TaskIds : Kill(t)

Spec == Init /\ [][Next]_vars

\* ------------------------------------------- classifier and poll on their own
\* classify and wait_for_completion exercised one at a time on page
\* observations and page timelines.
IdleProbe == [sig |-> [msg |-> <<"Flow">>, elapsed |-> 0, recheck |-> FALSE], cls |-> Ignore]
IdleRun == [tl |-> [artifactAt |-> 0, errFrom |-> 0, errTo |-> 0, msg |-> <<"Flow">>],
            elapsed |-> 0, seen |-> Never, polled |-> Never, res |-> Artifact]

\* classify applied to a page observation.
Classify ==
    /\ run.res # Polling
    /\ \E sig \in Signals : probe' = [sig |-> sig, cls |-> classify(sig)]
    /\ run' = IdleRun
    /\ UNCHANGED <<orchVars, nav, page, hook, frontVars>>

\* wait_for_completion is called on a page with some timeline.
StartWait ==
    /\ run.res # Polling
    /\ \E tl \in Timelines : run' = [tl |-> tl, elapsed |-> 0, seen |-> Never, polled |-> Never, res |-> Polling]
    /\ probe' = IdleProbe
    /\ UNCHANGED <<orchVars, nav, page, hook, frontVars>>

\* One iteration of its poll loop.
Poll ==
    /\ run.res = Polling
    /\ LET step == PollStep(run.tl, run.elapsed) IN
       run' = [run EXCEPT !.elapsed = step.elapsed, !.res = step.res,
                          !.seen = IF step.seen = Never THEN @ ELSE step.seen,
                          !.polled = IF step.polled THEN run.elapsed ELSE @]
    /\ UNCHANGED probe
    /\ UNCHANGED <<orchVars, nav, page, hook, frontVars>>

NextDriver == Classify \/ StartWait \/ Poll
SpecDriver == Init /\ [][NextDriver]_vars
\* The poll loop sleeps and wakes: an iteration that is due is taken.
SpecDriverFair == SpecDriver /\ WF_vars(Poll)

\* ------------------------------------------------- navigate_to_flow by itself
\* navigate_to_flow followed step by step on one page: the login redirect,
\* the account popup check, the credit loading check.
LoginWait == 60
LoginPollInterval == 2
MaxCreditReloads == 2

\* When the user finishes a manual login, in seconds after the redirect.
LoginTimes == {6, 60, 62, Never}
\* What the Flow site does to one navigation: whether it redirects to the
\* login page, when the user logs in, whether the page is the login page
\* again after navigating back, which account popup it shows and whether
\* its close button works, and on how many page loads in a row the credit
\* information fails to load.
Sites == [headless : BOOLEAN, redirect : BOOLEAN, loginAt : LoginTimes,
          backOnLogin : BOOLEAN, popup : {"none", "closes", "stays"},
          creditFails : 0 .. (MaxCreditReloads + 1)]

LoggedIn(site, waited) == site.loginAt # Never /\ site.loginAt <= waited

\* Mutant: the redirect is logged and navigation goes on, as before the fix.
OnLoginRedirect_continue(headless) == "POPUP_CHECK"
\* Headless mode raises at once, non-headless mode waits for a manual login.
OnLoginRedirect(headless) == IF headless THEN "FAILED" ELSE "LOGIN_WAIT"

\* Mutant: a credit loading failure that outlasts the reloads is raised.
AfterCreditFailure_fatal(reloads) ==
    IF reloads < MaxCreditReloads THEN "CREDIT_CHECK" ELSE "FAILED"
\* "Retry up to 2 times", then "continues automation even if credit loading
\* fails".
AfterCreditFailure(reloads) ==
    IF reloads < MaxCreditReloads THEN "CREDIT_CHECK" ELSE "DONE"

NavEnded == {"idle", "DONE", "FAILED"}

\* page.goto(Flow) on a fresh page.
GotoFlow ==
    /\ nav.stage \in NavEnded
    /\ \E site \in Sites :
         nav' = [IdleNav EXCEPT !.site = site, !.stage = "LOGIN_CHECK",
                                !.page = IF site.redirect THEN "login" ELSE "flow"]
    /\ UNCHANGED <<orchVars, probe, run, page, hook, frontVars>>

\* The login redirect is detected.
LoginCheck ==
    /\ nav.stage = "LOGIN_CHECK"
    /\ IF nav.page = "login"
         THEN LET next == OnLoginRedirect(nav.site.headless) IN
              nav' = [nav EXCEPT !.stage = next,
                                 !.res = IF next = "FAILED" THEN "LoginRequired" ELSE "none"]
         ELSE nav' = [nav EXCEPT !.stage = "POPUP_CHECK"]
    /\ UNCHANGED <<orchVars, probe, run, page, hook, frontVars>>

\* Non-headless mode: the URL is checked every 2 seconds for up to 60.
WaitForLogin ==
    /\ nav.stage = "LOGIN_WAIT"
    /\ nav' = IF LoggedIn(nav.site, nav.waited)
                THEN [nav EXCEPT !.stage = "LOGIN_VERIFY", !.page = "account"]
              ELSE IF nav.waited >= LoginWait
                THEN [nav EXCEPT !.stage = "FAILED", !.res = "LoginRequired"]
              ELSE [nav EXCEPT !.waited = @ + LoginPollInterval]
    /\ UNCHANGED <<orchVars, probe, run, page, hook, frontVars>>

\* After the login: the login status is verified with the cookie
\* extractor, the page navigates back to Flow and must not be the login
\* page again.
VerifyLogin ==
    /\ nav.stage = "LOGIN_VERIFY"
    /\ nav' = IF nav.site.backOnLogin
                THEN [nav EXCEPT !.verified = TRUE, !.renavigated = TRUE, !.page = "login",
                                 !.stage = "FAILED", !.res = "LoginRequired"]
                ELSE [nav EXCEPT !.verified = TRUE, !.renavigated = TRUE, !.page = "flow",
                                 !.stage = "POPUP_CHECK"]
    /\ UNCHANGED <<orchVars, probe, run, page, hook, frontVars>>

\* Google account popup error: screenshot, "attempt to close popup if close
\* button found", "raise exception with detailed error message".
AccountPopupCheck ==
    /\ nav.stage = "POPUP_CHECK"
    /\ nav' = IF nav.site.popup = "none"
                THEN [nav EXCEPT !.stage = "CREDIT_CHECK"]
                ELSE [nav EXCEPT !.dismissed = (nav.site.popup = "closes"),
                                 !.stage = "FAILED", !.res = "AccountPopupError"]
    /\ UNCHANGED <<orchVars, probe, run, page, hook, frontVars>>

\* Credit loading error: the popup is closed and the page refreshed, at
\* most twice; after that a warning is logged and navigation goes on.
CreditLoadCheck ==
    /\ nav.stage = "CREDIT_CHECK"
    /\ nav' = IF nav.reloads < nav.site.creditFails
                THEN LET next == AfterCreditFailure(nav.reloads) IN
                     IF next = "CREDIT_CHECK"
                       THEN [nav EXCEPT !.reloads = @ + 1]
                       ELSE [nav EXCEPT !.warned = TRUE, !.stage = next,
                                        !.res = IF next = "DONE" THEN "ok"
                                                ELSE "CreditLoadFailure"]
                ELSE [nav EXCEPT !.stage = "DONE", !.res = "ok"]
    /\ UNCHANGED <<orchVars, probe, run, page, hook, frontVars>>

NextNav ==
    \/ GotoFlow
    \/ LoginCheck
    \/ WaitForLogin
    \/ VerifyLogin
    \/ AccountPopupCheck
    \/ CreditLoadCheck
SpecNav == Init /\ [][NextNav]_vars

\* ------------------------------------------------------- project page alone
\* The project page with its scenes query, its refetch effect and its
\* render handlers; the workers are reduced to the status they write.
Absent == "absent"
\* "scenes.some(s => s.status === 'rendering' || s.status === 'pending')"
hasActiveScenes(data) == \E s \in Scenes : data[s] \in {"rendering", "pending"}

\* The scene list as the API returns it.
FreshScenes == [s \in Scenes |-> IF s \in page.exists THEN scenes[s].status ELSE Absent]

\* Mutant: the effect returns no cleanup.
Cleanup_none(timers, hadInterval) == timers
\* "return () => clearInterval(interval)": the interval of the previous run
\* of the effect, when it made one, is cleared.
Cleanup(timers, hadInterval) == IF hadInterval THEN timers - 1 ELSE timers

\* The refetch effect, run again when the scene list changes.
TimersAfter(old, new) ==
    IF new = old THEN page.timers
    ELSE Cleanup(page.timers, hasActiveScenes(old)) + (IF hasActiveScenes(new) THEN 1 ELSE 0)

\* refetchQueries(['scenes', projectId]) and the render that follows it.
Refetched(p) == [p EXCEPT !.data = FreshScenes, !.timers = TimersAfter(page.data, FreshScenes)]

Event(ev, sent, confirmed) == [ev |-> ev, sent |-> sent, confirmed |-> confirmed]

\* The 3-second interval fires.
Tick ==
    /\ page.timers > 0
    /\ page' = [Refetched(page) EXCEPT !.last = Event("tick", FALSE, FALSE)]
    /\ UNCHANGED <<orchVars, probe, run, nav, hook, frontVars>>

\* handleRender: the request is sent, then startStatusPolling refetches.
handleRender(s) ==
    /\ page.data[s] # Absent
    /\ ~RenderDisabled(page.data[s])
    /\ page' = [Refetched(page) EXCEPT
                  !.queued = IF s \in page.exists THEN @ \cup {s} ELSE @,
                  !.last = Event("render", s \in page.exists, FALSE)]
    /\ UNCHANGED <<orchVars, probe, run, nav, hook, frontVars>>

\* Mutant: the list on display decides, not the refetched one.
ListUsed_displayed(fresh, displayed) == displayed
\* "Get fresh scenes data after refetch".
ListUsed(fresh, displayed) == fresh

\* handleRenderAll: refetch, look for pending scenes in the fresh list, ask
\* the user, send the render-all request (the backend queues every pending
\* scene), refetch.
handleRenderAll ==
    /\ \E s \in Scenes : page.data[s] = "pending"
    /\ \E confirmed \in BOOLEAN :
         LET list == ListUsed(FreshScenes, page.data)
             pendingScenes == {s \in Scenes : list[s] = "pending"}
             send == pendingScenes # {} /\ confirmed
         IN  page' = [Refetched(page) EXCEPT
                        !.queued = IF send
                                     THEN @ \cup {s \in page.exists : scenes[s].status = "pending"}
                                     ELSE @,
                        !.last = Event("renderAll", send, confirmed)]
    /\ UNCHANGED <<orchVars, probe, run, nav, hook, frontVars>>

\* handleDeleteScene: the scene is deleted, the list refetched.
handleDeleteScene(s) ==
    /\ page.data[s] # Absent
    /\ page' = [page EXCEPT !.exists = @ \ {s}, !.queued = @ \ {s},
                            !.data = [FreshScenes EXCEPT ![s] = Absent],
                            !.timers = TimersAfter(page.data, [FreshScenes EXCEPT ![s] = Absent]),
                            !.last = Event("delete", s \in page.exists, TRUE)]
    /\ UNCHANGED <<orchVars, probe, run, nav, hook, frontVars>>

\* The same scene deleted from another window: this page is not told.
DeleteElsewhere(s) ==
    /\ s \in page.exists
    /\ page' = [page EXCEPT !.exists = @ \ {s}, !.queued = @ \ {s},
                            !.last = Event("elsewhere", FALSE, FALSE)]
    /\ UNCHANGED <<orchVars, probe, run, nav, hook, frontVars>>

\* The worker of a queued scene writes rendering, then completed or failed.
WorkerStep(s) ==
    /\ s \in page.queued
    /\ \E ok \in BOOLEAN :
         scenes' = [scenes EXCEPT ![s] =
                      IF @.status # "rendering"
                        THEN [status |-> "rendering", video |-> @.video, error |-> NoError]
                      ELSE IF ok
                        THEN [status |-> "completed", video |-> Prompt(s), error |-> NoError]
                        ELSE [status |-> "failed", video |-> @.video,
                              error |-> <<"GenerationTimeout">>]]
    /\ page' = [page EXCEPT !.queued = IF scenes[s].status = "rendering" THEN @ \ {s} ELSE @,
                            !.last = Event("worker", FALSE, FALSE)]
    /\ UNCHANGED <<shown, active, submitted, pc, sceneOf, sess, holder, navAttempts, browser, frontVars>>
    /\ UNCHANGED <<probe, run, nav, hook, store, profiles, reply, frontVars>>

NextPage ==
    \/ Tick
    \/ \E s \in Scenes : handleRender(s)
    \/ handleRenderAll
    \/ \E s \in Scenes : handleDeleteScene(s)
    \/ \E s \in Scenes : DeleteElsewhere(s)
    \/ \E s \in Scenes : WorkerStep(s)
SpecPage == Init /\ [][NextPage]_vars

\* ---------------------------------------------------------- useRenderTask
\* The hook that follows one task through GET /api/render/tasks/{task_id}.
PollMs == 2000
\* States of a task in the task queue.
TaskStates == {"PENDING", "STARTED", "RETRY", "SUCCESS", "FAILURE", "REVOKED"}
\* How the queue moves a task on.
TaskMoves(st) ==
    CASE st = "PENDING" -> {"STARTED", "REVOKED"}
      [] st = "STARTED" -> {"SUCCESS", "FAILURE", "RETRY", "REVOKED"}
      [] st = "RETRY"   -> {"STARTED", "REVOKED"}
      [] OTHER          -> {}

\* Mutant: the query is refetched every 2 seconds whatever it last saw.
refetchInterval_always(status) == PollMs
\* "Poll every 2 seconds if task is still pending/processing", 0 for false.
refetchInterval(status) == IF status = "PENDING" \/ status = "STARTED" THEN PollMs ELSE 0

isComplete(status) == status = "SUCCESS"
isFailed(status) == status = "FAILURE"

\* One run of queryFn: the answer becomes query.data, an error leaves the
\* data as it was; refetchInterval is evaluated on the result.
Fetched(h, answered, kind) ==
    LET data == IF answered THEN h.server ELSE h.data IN
    [h EXCEPT !.data = data, !.interval = refetchInterval(data), !.last = kind]

\* The hook is mounted with the task's id and fetches once.
MountHook(t) ==
    /\ ~hook[t].mounted
    /\ \E answered \in BOOLEAN :
         hook' = [hook EXCEPT ![t] = Fetched([@ EXCEPT !.mounted = TRUE], answered, "initial")]
    /\ UNCHANGED <<orchVars, probe, run, nav, page, frontVars>>

\* The refetch interval fires.
PollFetch(t) ==
    /\ hook[t].mounted
    /\ hook[t].interval > 0
    /\ \E answered \in BOOLEAN :
         hook' = [hook EXCEPT ![t] = Fetched(@, answered, "poll")]
    /\ UNCHANGED <<orchVars, probe, run, nav, page, frontVars>>

\* The task queue moves the task on.
QueueStep(t) ==
    /\ \E st \in TaskMoves(hook[t].server) : hook' = [hook EXCEPT ![t].server = st]
    /\ UNCHANGED <<orchVars, probe, run, nav, page, frontVars>>

NextHook ==
    \/ \E t \in TaskIds : MountHook(t)
    \/ \E t \in TaskIds : PollFetch(t)
    \/ \E t \in TaskIds : QueueStep(t)
SpecHook == Init /\ [][NextHook]_vars

\* ------------------------------------------------------------ profile store
\* The store's operations as the setup API offers them, ProfileManager's
\* handlers on top of them, and the sessions that hold profiles.
Held(id) == \E t \in TaskIds : holder[t] = id
\* Mutant: only the is_active flag protects a profile.
InUse_activeOnly(id) == store[id].is_active
\* delete(id) is refused while the profile is active or a session holds it.
InUse(id) == store[id].is_active \/ Held(id)

Answer(op, id, res) == reply' = [op |-> op, id |-> id, res |-> res]

\* POST /api/setup/profiles: a new profile, not active.
createProfile(id) ==
    /\ UNCHANGED active
    /\ IF store[id].exists
         THEN /\ Answer("create", id, "Exists") /\ UNCHANGED store
         ELSE /\ store' = [store EXCEPT ![id] = [exists |-> TRUE, is_active |-> FALSE]]
              /\ Answer("create", id, "ok")

\* POST /api/setup/profiles/{id}/set-active.
setActiveProfile(id) ==
    IF store[id].exists
      THEN /\ store' = Activate(store, id)
           /\ active' = id
           /\ Answer("setActive", id, "ok")
      ELSE /\ Answer("setActive", id, "NotFound") /\ UNCHANGED <<store, active, frontVars>>

\* DELETE /api/setup/profiles/{id}.
deleteProfile(id) ==
    /\ UNCHANGED active
    /\ IF ~store[id].exists
         THEN /\ Answer("delete", id, "NotFound") /\ UNCHANGED store
         ELSE IF InUse(id)
           THEN /\ Answer("delete", id, "ProfileInUse") /\ UNCHANGED store
           ELSE /\ store' = [store EXCEPT ![id] = NoRecord]
                /\ Answer("delete", id, "ok")

\* What only the profile store's steps leave alone.
Elsewhere == <<scenes, shown, submitted, pc, sceneOf, sess, navAttempts, browser, probe, run, nav, page, hook,
              frontVars>>

\* "await loadProfiles()" after a request that succeeded; a request that
\* failed ends in the catch branch, the list stays as it was.
Reloaded == profiles' = IF reply'.res = "ok" THEN store' ELSE profiles

\* useEffect on mount: the list is loaded from the store.
loadProfiles ==
    /\ profiles' = store
    /\ UNCHANGED <<store, active, holder, reply, frontVars>>
    /\ UNCHANGED Elsewhere

\* The create form: any name.
handleCreateProfile(id) ==
    /\ createProfile(id)
    /\ Reloaded
    /\ UNCHANGED holder
    /\ UNCHANGED Elsewhere

\* "Set Active" is offered on the listed profiles that are not active.
handleSetActive(id) ==
    /\ profiles[id].exists /\ ~profiles[id].is_active
    /\ setActiveProfile(id)
    /\ Reloaded
    /\ UNCHANGED holder
    /\ UNCHANGED Elsewhere

\* The delete button is disabled on the listed profile that is active.
handleDeleteProfile(id) ==
    /\ profiles[id].exists /\ ~profiles[id].is_active
    /\ deleteProfile(id)
    /\ Reloaded
    /\ UNCHANGED holder
    /\ UNCHANGED Elsewhere

\* The same endpoints called by another client: this page's list is not
\* reloaded.
ApiRequest(id) ==
    /\ createProfile(id) \/ setActiveProfile(id) \/ deleteProfile(id)
    /\ UNCHANGED <<profiles, holder, frontVars>>
    /\ UNCHANGED Elsewhere

\* A task's session is opened from the profile that is active at that
\* moment (AcquireSession, seen from the store) and closed when the task ends.
OpenSession(t) ==
    /\ holder[t] = NoProfile
    /\ HasCookieJar(active)
    /\ holder' = [holder EXCEPT ![t] = active]
    /\ UNCHANGED <<store, active, profiles, reply, frontVars>>
    /\ UNCHANGED Elsewhere

CloseSession(t) ==
    /\ holder[t] # NoProfile
    /\ holder' = [holder EXCEPT ![t] = NoProfile]
    /\ UNCHANGED <<store, active, profiles, reply, frontVars>>
    /\ UNCHANGED Elsewhere

NextProfiles ==
    \/ loadProfiles
    \/ \E id \in Profiles : handleCreateProfile(id)
    \/ \E id \in Profiles : handleSetActive(id)
    \/ \E id \in Profiles : handleDeleteProfile(id)
    \/ \E id \in Profiles : ApiRequest(id)
    \/ \E t \in TaskIds : OpenSession(t)
    \/ \E t \in TaskIds : CloseSession(t)
SpecProfiles == Init /\ [][NextProfiles]_vars

\* ------------------------------------------------------------ script wizard
\* The five steps of the wizard, in order.
steps == <<"parameters", "script-preview", "characters", "scenes", "review">>
\* steps.findIndex, counted from 0 as in the source.
currentStepIndex == (CHOOSE i \in 1..Len(steps) : steps[i] = wizard.currentStep) - 1
\* A list query holds nothing yet (NoData), an empty list or a list with
\* entries: !!list && list.length > 0.
NonEmpty(list) == list # NoData /\ list # "empty"

\* Mutant: every step can be opened from the indicator.
canNavigateToStep_open(stepId, index) == TRUE
canNavigateToStep(stepId, index) ==
    IF index <= currentStepIndex THEN TRUE
    ELSE IF stepId = "script-preview" THEN wizard.script
    ELSE IF stepId = "characters" THEN NonEmpty(wizard.characters)
    ELSE IF stepId = "scenes" THEN NonEmpty(wizard.scenes)
    ELSE IF stepId = "review" THEN wizard.script /\ NonEmpty(wizard.scenes)
    ELSE FALSE

\* The disabled attribute of the Next button.
NextDisabled ==
    \/ wizard.currentStep = "parameters" /\ ~wizard.generationResult
    \/ wizard.currentStep = "script-preview" /\ ~wizard.script
    \/ wizard.currentStep = "characters" /\ ~NonEmpty(wizard.characters)
    \/ wizard.currentStep = "scenes" /\ ~NonEmpty(wizard.scenes)

\* The wizard after an event that asked for step `to` from the step it is on.
Stepped(ev, to, moved) ==
    [wizard EXCEPT !.currentStep = IF moved THEN steps[to + 1] ELSE @,
                   !.last = [ev |-> ev, from |-> currentStepIndex, to |-> to,
                             moved |-> moved]]

\* A click on entry `index` of the step indicator.
StepClick(index) ==
    /\ wizard' = Stepped("click", index, canNavigateToStep(steps[index + 1], index))
    /\ UNCHANGED <<orchVars, probe, run, nav, page, hook, dialog, sceneStore, projectStore>>

\* The Next button: shown on every step but review, enabled unless NextDisabled.
handleNext ==
    /\ wizard.currentStep # "review"
    /\ ~NextDisabled
    /\ wizard' = Stepped("next", currentStepIndex + 1, currentStepIndex < Len(steps) - 1)
    /\ UNCHANGED <<orchVars, probe, run, nav, page, hook, dialog, sceneStore, projectStore>>

\* The Back button, disabled on the first step.
handleBack ==
    /\ currentStepIndex # 0
    /\ wizard' = Stepped("back", currentStepIndex - 1, currentStepIndex > 0)
    /\ UNCHANGED <<orchVars, probe, run, nav, page, hook, dialog, sceneStore, projectStore>>

\* The generation form of the first step reports success.
handleGenerationSuccess ==
    /\ wizard.currentStep = "parameters"
    /\ wizard' = [Stepped("generated", 1, TRUE) EXCEPT !.generationResult = TRUE]
    /\ UNCHANGED <<orchVars, probe, run, nav, page, hook, dialog, sceneStore, projectStore>>

\* The script, characters and scenes queries bring what the server holds now.
QueryResult ==
    /\ \E sc \in BOOLEAN, ch \in {NoData, "empty", "some"}, sn \in {"empty", "some"} :
         wizard' = [wizard EXCEPT !.script = sc, !.characters = ch, !.scenes = sn,
                                  !.last = [ev |-> "data", from |-> currentStepIndex,
                                            to |-> currentStepIndex, moved |-> FALSE]]
    /\ UNCHANGED <<orchVars, probe, run, nav, page, hook, dialog, sceneStore, projectStore>>

NextWizard ==
    \/ \E index \in 0..(Len(steps) - 1) : StepClick(index)
    \/ handleNext
    \/ handleBack
    \/ handleGenerationSuccess
    \/ QueryResult
SpecWizard == Init /\ [][NextWizard]_vars

\* ------------------------------------------------------- guided login dialog
DialogFrame == <<orchVars, probe, run, nav, page, hook, wizard, sceneStore, projectStore>>

\* Mutant: any status that has been fetched allows the confirmation.
canConfirm_anyStatus == dialog.loginStatus.checked
\* loginStatus?.both_logged_in === true
canConfirm == dialog.loginStatus.checked /\ dialog.loginStatus.both_logged_in

\* Mutant: the Open Flow button only waits for its own request.
FlowDisabled_own == dialog.openingFlow
\* The disabled attribute of the Open Flow button.
FlowDisabled == dialog.openingFlow \/ ~dialog.gmailOpened

\* Open Gmail: the click sends the request; when it resolves gmailOpened is
\* set, when it is rejected an alert is shown; openingGmail is reset.
handleOpenGmail ==
    /\ \/ /\ dialog.open /\ ~dialog.openingGmail
          /\ dialog' = [dialog EXCEPT !.openingGmail = TRUE, !.last = Did("openGmail", "sent")]
       \/ /\ dialog.openingGmail
          /\ \E res \in {"ok", "error"} :
               dialog' = [dialog EXCEPT !.gmailOpened = IF res = "ok" THEN TRUE ELSE @,
                                        !.openingGmail = FALSE,
                                        !.last = Did("openGmail", res)]
    /\ UNCHANGED DialogFrame

\* Open Flow, in the same way.
handleOpenFlow ==
    /\ \/ /\ dialog.open /\ ~FlowDisabled
          /\ dialog' = [dialog EXCEPT !.openingFlow = TRUE, !.last = Did("openFlow", "sent")]
       \/ /\ dialog.openingFlow
          /\ \E res \in {"ok", "error"} :
               dialog' = [dialog EXCEPT !.flowOpened = IF res = "ok" THEN TRUE ELSE @,
                                        !.openingFlow = FALSE,
                                        !.last = Did("openFlow", res)]
    /\ UNCHANGED DialogFrame

\* Check Status, offered under either tab once its page was opened: the
\* answer replaces loginStatus, a rejected request leaves it.
checkLoginStatus ==
    /\ \/ /\ dialog.open /\ ~dialog.checkingStatus
          /\ dialog.gmailOpened \/ dialog.flowOpened
          /\ dialog' = [dialog EXCEPT !.checkingStatus = TRUE, !.last = Did("check", "sent")]
       \/ /\ dialog.checkingStatus
          /\ \/ \E g, f, b \in BOOLEAN :
                  dialog' = [dialog EXCEPT !.loginStatus =
                                               [checked |-> TRUE, gmail_logged_in |-> g,
                                                flow_logged_in |-> f, both_logged_in |-> b],
                                           !.reported = IF b THEN "both" ELSE "not both",
                                           !.checkingStatus = FALSE,
                                           !.last = Did("check", "ok")]
             \/ dialog' = [dialog EXCEPT !.checkingStatus = FALSE,
                                         !.last = Did("check", "error")]
    /\ UNCHANGED DialogFrame

\* Confirm Login: the click sends the request; on success = true onSuccess
\* and onClose are called, otherwise an alert is shown; confirming is reset.
handleConfirmLogin ==
    /\ \/ /\ dialog.open /\ ~(~canConfirm \/ dialog.confirming)
          /\ dialog' = [dialog EXCEPT !.confirming = TRUE, !.last = Did("confirm", "sent")]
       \/ /\ dialog.confirming
          /\ \E res \in {"success", "refused", "error"} :
               dialog' = [dialog EXCEPT !.onSuccess = IF res = "success" THEN @ + 1 ELSE @,
                                        !.onClose = IF res = "success" THEN @ \cup {"confirm"}
                                                    ELSE @,
                                        !.open = IF res = "success" THEN FALSE ELSE @,
                                        !.confirming = FALSE,
                                        !.last = Did("confirm", res)]
    /\ UNCHANGED DialogFrame

\* The Close button; requests on their way still end.
onClose ==
    /\ dialog.open
    /\ dialog' = [dialog EXCEPT !.open = FALSE, !.onClose = @ \cup {"button"},
                                !.last = Did("close", "button")]
    /\ UNCHANGED DialogFrame

NextDialog ==
    \/ handleOpenGmail
    \/ handleOpenFlow
    \/ checkLoginStatus
    \/ handleConfirmLogin
    \/ onClose
SpecDialog == Init /\ [][NextDialog]_vars

\* ------------------------------------------------------------- scene store
SceneIds == 1..MaxScenes
Prompts == {"a", "b"}
NoScene == [exists |-> FALSE, prompt |-> "a", status |-> "pending"]
StoreFrame == <<orchVars, probe, run, nav, page, hook, wizard, dialog>>

\* { ...s, ...updates }: the fields of updates replace those of s.
Merge(s, updates) == [f \in DOMAIN s |-> IF f \in DOMAIN updates THEN updates[f] ELSE s[f]]

\* The store's operations on its list.
addScene(list, scene) == Append(list, scene)
updateScene(list, id, updates) ==
    [i \in 1..Len(list) |-> IF list[i].id = id THEN Merge(list[i], updates) ELSE list[i]]
deleteScene(list, id) == SelectSeq(list, LAMBDA s : s.id # id)

\* api.scenes.list: the scenes the server holds, one entry per scene, by id.
queryFn(server) ==
    LET live == {i \in SceneIds : server[i].exists}
    IN  [k \in 1..Cardinality(live) |->
           LET i == CHOOSE i \in live : Cardinality({j \in live : j < i}) = k - 1
           IN  [id |-> i, prompt |-> server[i].prompt, status |-> server[i].status]]
\* What refetchQueries leaves in the store: the query function passes the
\* list to setScenes; a refetch that fails leaves the store as it was.
Refetching(refetched, server) == IF refetched THEN queryFn(server) ELSE sceneStore.scenes

\* The scenes query runs (mount, invalidation, window focus).
refetch ==
    /\ sceneStore' = [sceneStore EXCEPT !.scenes = queryFn(sceneStore.server),
                                        !.last = "refetch"]
    /\ UNCHANGED <<StoreFrame, projectStore>>

\* createMutation: the server creates the scene; onSuccess awaits a refetch
\* and then adds the new scene to the store.
createMutation ==
    /\ sceneStore.made < MaxScenes
    /\ \E prompt \in Prompts, refetched \in BOOLEAN :
         LET id == sceneStore.made + 1
             newScene == [id |-> id, prompt |-> prompt, status |-> "pending"]
             server == [sceneStore.server EXCEPT
                          ![id] = [exists |-> TRUE, prompt |-> prompt, status |-> "pending"]]
         IN  sceneStore' = [sceneStore EXCEPT
                              !.server = server, !.made = id,
                              !.scenes = addScene(Refetching(refetched, server), newScene),
                              !.last = "create"]
    /\ UNCHANGED <<StoreFrame, projectStore>>

\* updateMutation: the server changes the scene; onSuccess awaits a refetch
\* and then merges the answer into the store's entry.
updateMutation(id) ==
    /\ sceneStore.server[id].exists
    /\ \E prompt \in Prompts, refetched \in BOOLEAN :
         LET server == [sceneStore.server EXCEPT ![id].prompt = prompt]
             updatedScene == [id |-> id, prompt |-> prompt, status |-> server[id].status]
         IN  sceneStore' = [sceneStore EXCEPT
                              !.server = server,
                              !.scenes = updateScene(Refetching(refetched, server), id,
                                                     updatedScene),
                              !.last = "update"]
    /\ UNCHANGED <<StoreFrame, projectStore>>

\* deleteMutation: the server deletes the scene; onSuccess awaits a refetch
\* and then removes the scene from the store.
deleteMutation(id) ==
    /\ sceneStore.server[id].exists
    /\ \E refetched \in BOOLEAN :
         LET server == [sceneStore.server EXCEPT ![id] = NoScene]
         IN  sceneStore' = [sceneStore EXCEPT
                              !.server = server,
                              !.scenes = deleteScene(Refetching(refetched, server), id),
                              !.last = "delete"]
    /\ UNCHANGED <<StoreFrame, projectStore>>

\* renderMutation: the request is queued (the worker may already have
\* written rendering); onSuccess marks the store's entry as rendering.
renderMutation(sceneId) ==
    /\ sceneStore.server[sceneId].exists
    /\ \E started \in BOOLEAN :
         sceneStore' = [sceneStore EXCEPT
                          !.server[sceneId].status = IF started THEN "rendering" ELSE @,
                          !.scenes = updateScene(@, sceneId, [status |-> "rendering"]),
                          !.last = "render"]
    /\ UNCHANGED <<StoreFrame, projectStore>>

NextSceneStore ==
    \/ refetch
    \/ createMutation
    \/ \E id \in SceneIds : updateMutation(id)
    \/ \E id \in SceneIds : deleteMutation(id)
    \/ \E id \in SceneIds : renderMutation(id)
SpecSceneStore == Init /\ [][NextSceneStore]_vars

\* ----------------------------------------------------------- project store
ProjectIds == {"p1", "p2"}
ProjectNames == {"a", "b"}
Projects == [id : ProjectIds, name : ProjectNames]
\* currentProject: null.
NoCurrent == [id |-> "null", name |-> "null"]
\* Partial<Project>: any of the fields, the id among them.
Updates == {u \in UNION {[d -> ProjectIds \cup ProjectNames] : d \in SUBSET {"id", "name"}} :
              /\ "id" \in DOMAIN u => u["id"] \in ProjectIds
              /\ "name" \in DOMAIN u => u["name"] \in ProjectNames}
NoUpdates == [d \in {} |-> "a"]
\* What api.projects.list answers: one entry per project.
ProjectLists == {list \in UNION {[1..n -> Projects] : n \in 0..Cardinality(ProjectIds)} :
                   \A i, j \in DOMAIN list : i # j => list[i].id # list[j].id}
Called(op, id, updates) == [op |-> op, id |-> id, updates |-> updates]

setProjects(list) ==
    /\ projectStore' = [projectStore EXCEPT !.projects = list,
                                            !.last = Called("setProjects", "none", NoUpdates)]
    /\ UNCHANGED <<StoreFrame, sceneStore>>

addProject(project) ==
    /\ Len(projectStore.projects) < MaxProjects
    /\ projectStore' = [projectStore EXCEPT !.projects = Append(@, project),
                                            !.last = Called("addProject", project.id, NoUpdates)]
    /\ UNCHANGED <<StoreFrame, sceneStore>>

updateProject(id, updates) ==
    /\ projectStore' =
         [projects |-> [i \in 1..Len(projectStore.projects) |->
                          IF projectStore.projects[i].id = id
                            THEN Merge(projectStore.projects[i], updates)
                            ELSE projectStore.projects[i]],
          currentProject |-> IF projectStore.currentProject.id = id
                               THEN Merge(projectStore.currentProject, updates)
                               ELSE projectStore.currentProject,
          last |-> Called("updateProject", id, updates)]
    /\ UNCHANGED <<StoreFrame, sceneStore>>

\* Mutant: the deleted project stays the current one.
deleteProject_keepCurrent(id) ==
    /\ projectStore' =
         [projectStore EXCEPT !.projects = SelectSeq(@, LAMBDA p : p.id # id),
                              !.last = Called("deleteProject", id, NoUpdates)]
    /\ UNCHANGED <<StoreFrame, sceneStore>>
deleteProject(id) ==
    /\ projectStore' =
         [projects |-> SelectSeq(projectStore.projects, LAMBDA p : p.id # id),
          currentProject |-> IF projectStore.currentProject.id = id
                               THEN NoCurrent ELSE projectStore.currentProject,
          last |-> Called("deleteProject", id, NoUpdates)]
    /\ UNCHANGED <<StoreFrame, sceneStore>>

setCurrentProject(project) ==
    /\ projectStore' = [projectStore EXCEPT
                          !.currentProject = project,
                          !.last = Called("setCurrentProject", project.id, NoUpdates)]
    /\ UNCHANGED <<StoreFrame, sceneStore>>

NextProjectStore ==
    \/ \E list \in ProjectLists : setProjects(list)
    \/ \E project \in Projects : addProject(project)
    \/ \E id \in ProjectIds, updates \in Updates : updateProject(id, updates)
    \/ \E id \in ProjectIds : deleteProject(id)
    \/ \E project \in Projects \cup {NoCurrent} : setCurrentProject(project)
SpecProjectStore == Init /\ [][NextProjectStore]_vars

\* ================================================================ properties
TimedOut == Failure(<<"GenerationTimeout">>)
\* The poll loop returned a failure for a message of the page.
PageFailure == run.res.kind = "Failure" /\ run.res # TimedOut
FreshProject(t) == [owner |-> t, text |-> NoText, subs |-> <<>>]
\* Task t has the stages of the generation driver open on its own project.
Driving == {"PROMPT_INJECTED", "TRIGGER_RETRY", "GENERATION_TRIGGERED", "AWAITING_COMPLETION"}

\* C1 (as stated): once the persisted status is completed or failed it is
\* never written again, whatever is re-submitted.
C1_StatusNeverRewritten ==
    [][\A s \in Scenes :
         scenes[s].status \in {"completed", "failed"} => scenes'[s] = scenes[s]]_vars

\* C1 (amended): a task that has terminated never leaves its terminal state
\* and writes no status; every status write is made by a task of that scene
\* that was still running; and a task is submitted for a scene only while
\* the page shows the scene as pending or failed.
C1_TerminatedTaskWritesNothing ==
    [][/\ \A t \in TaskIds : pc[t] \in Terminal => pc'[t] = pc[t]
       /\ \A s \in Scenes :
            scenes'[s] # scenes[s] =>
              \E t \in TaskIds : sceneOf[t] = s /\ pc[t] \in Running /\ pc'[t] # pc[t]
       /\ \A s \in Scenes :
            (submitted' = submitted + 1 /\ sceneOf'[submitted'] = s) =>
              shown[s] \in {"pending", "failed"}]_vars

\* A failed scene was submitted again: the second task of the scene runs and
\* the row is back to rendering.
C1_Witness ==
    \E t, u \in TaskIds :
      /\ t # u /\ sceneOf[t] = sceneOf[u]
      /\ pc[t] = "FAILED" /\ pc[u] \in Running \ {"QUEUED"}
      /\ scenes[sceneOf[t]].status = "rendering"

\* C2: with force_new=True, a task enters its editor only from the gallery,
\* into a project it created itself and that is empty; an editor that was
\* already open is left through the gallery and never reused.
C2_ForceNewLeavesEditorFirst ==
    [][\A t \in TaskIds :
         (pc[t] = "SESSION_ACQUIRED" /\ pc'[t] = "NAVIGATED") =>
            /\ browser'[sess[t]].view = "editor"
            /\ browser'[sess[t]].proj = FreshProject(t)
            /\ browser[sess[t]].view = "editor" => browser'[sess[t]].viaGallery]_vars

\* The page was in an editor holding a leftover project; the task went to
\* the gallery and is now in an editor of its own.
C2_Witness ==
    \E t \in TaskIds :
      /\ pc[t] = "NAVIGATED"
      /\ browser[sess[t]].viaGallery
      /\ browser[sess[t]].proj = FreshProject(t)

\* C3: whatever the interleaving of two tasks on the active profile, the
\* prompt in a task's editor at the trigger is its own, every generation in
\* its project was submitted with its own prompt, and a completed scene
\* holds the video of its own prompt.
C3_NoPromptBleed ==
    /\ \A t \in TaskIds :
         /\ pc[t] = "PROMPT_INJECTED" => browser[sess[t]].proj.text = Prompt(sceneOf[t])
         /\ pc[t] \in Driving =>
              /\ browser[sess[t]].proj.owner = t
              /\ \A i \in DOMAIN browser[sess[t]].proj.subs :
                   browser[sess[t]].proj.subs[i] = Prompt(sceneOf[t])
    /\ \A s \in Scenes : scenes[s].status = "completed" => scenes[s].video = Prompt(s)

\* One task has completed its scene while the other, started on the same
\* profile, is waiting for the video of another scene.
C3_Witness ==
    \E t, u \in TaskIds :
      /\ sceneOf[t] # sceneOf[u]
      /\ pc[t] = "COMPLETED" /\ scenes[sceneOf[t]].status = "completed"
      /\ pc[u] = "AWAITING_COMPLETION" /\ browser[sess[u]].proj.subs # <<>>

\* C4: open sessions are on pairwise distinct storage paths, each the
\* worker_celery path of its own task id, and no context is ever open on
\* the directory of a saved profile.
C4_PrivateStoragePaths ==
    /\ \A t, u \in TaskIds : (t # u /\ sess[t] # NoPath) => sess[t] # sess[u]
    /\ \A t \in TaskIds : sess[t] # NoPath => sess[t] = <<"worker_celery", t>>
    /\ \A p \in Profiles : ~browser[ProfilePath(p)].open

\* Two tasks hold open sessions at the same time.
C4_Witness ==
    \A t \in TaskIds : sess[t] # NoPath /\ browser[sess[t]].open

C6_GracePeriodIgnored ==
    /\ probe.sig.elapsed < 10 => probe.cls = Ignore
    /\ PageFailure => run.seen # Never /\ run.seen >= 10

\* A fatal message that persists, seen 8s after the trigger, was ignored.
C6_Witness ==
    /\ probe.sig = [msg |-> <<"Generation", "failed">>, elapsed |-> 8, recheck |-> TRUE]
    /\ probe.cls = Ignore

\* C7: after the grace period, an observation that is gone at the re-check
\* 2s later is Ignore and one that is still there gets the severity of its
\* text; wait_for_completion fails on a message only if the page showed it
\* when first seen and again 2s later.
C7_RecheckDecides ==
    /\ (probe.sig.elapsed >= GracePeriod /\ ~probe.sig.recheck) => probe.cls = Ignore
    /\ (probe.sig.elapsed >= GracePeriod /\ probe.sig.recheck) =>
          probe.cls = Severity(probe.sig.msg)
    /\ PageFailure =>
          /\ ErrorVisible(run.tl, run.seen)
          /\ ErrorVisible(run.tl, run.seen + 2)
          /\ run.elapsed = run.seen + 2

\* A fatal message was on the page at 10s and gone at 12s: the poll went on.
C7_Witness ==
    /\ run.tl.errFrom = 10 /\ run.tl.errTo = 11
    /\ MatchesFatal(run.tl.msg) /\ CharLen(run.tl.msg) >= MinErrorLen
    /\ run.seen = 10
    /\ run.res = Polling

\* C8: classify never answers Persistent for a message of fewer than 10
\* characters or for a bare generic word, and wait_for_completion never
\* fails on one, however long it stays on the page.
C8_ShortOrGenericNeverPersistent ==
    /\ probe.cls.kind = "Persistent" =>
          /\ CharLen(probe.sig.msg) >= 10
          /\ ~(Len(probe.sig.msg) = 1 /\ Lower(probe.sig.msg[1]) \in GenericWords)
    /\ PageFailure =>
          /\ CharLen(run.tl.msg) >= 10
          /\ ~(Len(run.tl.msg) = 1 /\ Lower(run.tl.msg[1]) \in GenericWords)

\* An 8-character message that matches a fatal pattern stayed on the page
\* from 20s on and was looked at until the poll timed out.
C8_Witness ==
    /\ run.tl.msg = <<"rat", "tiec">>
    /\ run.tl.errFrom = 20 /\ run.tl.errTo > CompletionTimeout
    /\ run.seen # Never
    /\ run.res = TimedOut

\* What a task reports when it fails.
FailureMessages ==
    { <<"ProfileCorrupt">>, <<"AuthenticationStale">>, <<"LoginRequired">>,
      <<"AccountPopupError">>, <<"NavigationFailed">>, <<"InjectFailed">>,
      <<"GenerationTimeout">>, <<"CancelledByUser">> }
      \cup {m \in PageErrors : Severity(m).kind = "Persistent"}

C10_PageClosedRetried ==
    \A t \in TaskIds :
      /\ navAttempts[t] <= 5
      /\ pc[t] = "SESSION_ACQUIRED" => browser[sess[t]].pageAlive /\ navAttempts[t] >= 1
      /\ pc[t] = "RETRYING" => ~browser[sess[t]].pageAlive /\ navAttempts[t] < 5
      /\ (/\ pc[t] \in {"SESSION_ACQUIRED", "RETRYING", "NAVIGATED"}
          /\ \A u \in TaskIds \ {t} : pc[u] = "idle" \/ sceneOf[u] # sceneOf[t]) =>
            /\ scenes[sceneOf[t]].status = "rendering"
            /\ scenes[sceneOf[t]].error = NoError

\* The page was closed four times, recreated each time, and the fifth
\* attempt has brought the live page to the gallery.
C10_Witness ==
    \E t \in TaskIds :
      /\ pc[t] = "SESSION_ACQUIRED" /\ navAttempts[t] = 5
      /\ browser[sess[t]].pageAlive /\ browser[sess[t]].view = "gallery"
      /\ scenes[sceneOf[t]].status = "rendering" /\ scenes[sceneOf[t]].error = NoError

\* C11 (as stated): a task started on a profile without authentication
\* cookies leaves the queue only to fail, with AuthenticationStale (or by a
\* cancellation), and its scene is never written to rendering by that step.
C11_StaleProfileNeverRenders ==
    [][\A t \in TaskIds :
         (pc[t] = "QUEUED" /\ pc'[t] # "QUEUED"
            /\ HasCookieJar(active) /\ AuthCookieCount(active) = 0) =>
           /\ pc'[t] = "FAILED"
           /\ scenes'[sceneOf[t]].status = "failed"
           /\ scenes'[sceneOf[t]].error \in {<<"AuthenticationStale">>, <<"CancelledByUser">>}]_vars

\* Task t was stopped from outside in this step: cancelled or killed.
Stopped(t) ==
    \/ pc'[t] = "KILLED"
    \/ pc'[t] = "FAILED" /\ scenes'[sceneOf[t]].error = <<"CancelledByUser">>

C13_OneGenerationPerTask ==
    \A t \in TaskIds :
      pc[t] \in Driving => Len(browser[sess[t]].proj.subs) <= 1

AloneOnScene(t) == \A u \in TaskIds \ {t} : pc[u] = "idle" \/ sceneOf[u] # sceneOf[t]

\* C15: the final status write is not lost: whenever a task has reached
\* COMPLETED or FAILED, its scene reads completed (with the video) or failed
\* (with the message), never rendering, until another task of the scene
\* writes it.
C15_FinalWriteNotLost ==
    \A t \in TaskIds :
      AloneOnScene(t) =>
        /\ pc[t] = "COMPLETED" =>
              /\ scenes[sceneOf[t]].status = "completed"
              /\ scenes[sceneOf[t]].video # NoText
        /\ pc[t] = "FAILED" =>
              /\ scenes[sceneOf[t]].status = "failed"
              /\ scenes[sceneOf[t]].error # NoError

\* A task went through navigation, injection, trigger and polling, found
\* its video, and its scene reads completed.
C15_Witness ==
    \E t \in TaskIds :
      /\ AloneOnScene(t) /\ pc[t] = "COMPLETED"
      /\ scenes[sceneOf[t]] = [status |-> "completed", video |-> Prompt(sceneOf[t]), error |-> NoError]

\* C16: a task can be cancelled wherever it stands between submission and
\* its end, and the step that fails a running task, the cancellation among
\* them, closes the task's browser context and writes failed with a reason
\* to the scene, which therefore does not stay rendering.
C16_CancelReleasesAndFails ==
    /\ [](\A t \in TaskIds : pc[t] \in Running => ENABLED Cancel(t))
    /\ [][\A t \in TaskIds :
            (pc[t] \in Running /\ pc'[t] = "FAILED") =>
               /\ sess'[t] = NoPath
               /\ sess[t] # NoPath => browser'[sess[t]] = ClosedBrowser
               /\ scenes'[sceneOf[t]].status = "failed"
               /\ scenes'[sceneOf[t]].error # NoError]_vars

\* A task cancelled while it polled for completion: failed with the
\* cancellation reason, its context closed.
C16_Witness ==
    \E t \in TaskIds :
      /\ pc[t] = "FAILED" /\ sess[t] = NoPath
      /\ scenes[sceneOf[t]].status = "failed"
      /\ scenes[sceneOf[t]].error = <<"CancelledByUser">>
      /\ browser[<<"worker_celery", t>>] = ClosedBrowser
      /\ scenes[sceneOf[t]].video = NoText

\* C17: no scene is left at rendering once the worker that rendered it has
\* been terminated by the hard time limit.
C17_NoRowLeftRendering ==
    \A t \in TaskIds :
      (pc[t] = "KILLED" /\ AloneOnScene(t)) =>
         scenes[sceneOf[t]].status # "rendering"

\* Task t's step changes its orchestrator state to st.
Enters(t, st) == pc'[t] = st /\ pc[t] # st

\* C18: the steps of a task happen in order. The prompt is typed only into
\* an editor that navigation has ended in; in the project the task opened,
\* Enter submits only the task's own injected prompt, after the injection; the trigger is attempted only after
\* the injection; the completion poll starts only after a trigger attempt,
\* and a task completes only out of the completion poll.
C18_StepsInOrder ==
    [][\A t \in TaskIds :
         /\ Enters(t, "PROMPT_INJECTED") =>
              /\ pc[t] = "NAVIGATED"
              /\ browser[sess[t]].view = "editor"
              /\ browser[sess[t]].proj = FreshProject(t)
         /\ Enters(t, "NAVIGATED") => pc[t] = "SESSION_ACQUIRED"
         /\ (/\ sess[t] # NoPath /\ sess'[t] = sess[t]
             /\ browser[sess[t]].proj.owner = t
             /\ Len(browser'[sess[t]].proj.subs) > Len(browser[sess[t]].proj.subs)) =>
              /\ pc[t] \in {"PROMPT_INJECTED", "TRIGGER_RETRY"}
              /\ browser'[sess[t]].proj.subs =
                    Append(browser[sess[t]].proj.subs, Prompt(sceneOf[t]))
              /\ pc[t] = "PROMPT_INJECTED" => browser[sess[t]].proj.text = Prompt(sceneOf[t])
         /\ (Enters(t, "TRIGGER_RETRY") \/ Enters(t, "GENERATION_TRIGGERED")) =>
              pc[t] \in {"PROMPT_INJECTED", "TRIGGER_RETRY"}
         /\ Enters(t, "AWAITING_COMPLETION") => pc[t] = "GENERATION_TRIGGERED"
         /\ Enters(t, "COMPLETED") => pc[t] = "AWAITING_COMPLETION"]_vars

\* A task that went through navigation, injection and an accepted trigger
\* and now polls its editor for the video.
C18_Witness ==
    \E t \in TaskIds :
      /\ pc[t] = "AWAITING_COMPLETION"
      /\ browser[sess[t]].view = "editor" /\ browser[sess[t]].pageAlive
      /\ browser[sess[t]].proj = [owner |-> t, text |-> NoText,
                                  subs |-> <<Prompt(sceneOf[t])>>]

ActiveProfiles(st) == {p \in Profiles : st[p].is_active}

\* C19: whatever profiles are created, set active and deleted, at most one
\* profile of the store has is_active set, it is an existing profile, and
\* the list ProfileManager shows has at most one active entry as well.
C19_AtMostOneActive ==
    /\ Cardinality(ActiveProfiles(store)) <= 1
    /\ Cardinality(ActiveProfiles(profiles)) <= 1
    /\ \A p \in ActiveProfiles(store) : store[p].exists /\ active = p

\* Another profile has been made active, the one active before has then
\* been deleted, and the list shows it.
C19_Witness ==
    \E p, q \in Profiles :
      /\ p # q /\ ~store[p].exists /\ store[q].is_active
      /\ reply = [op |-> "delete", id |-> p, res |-> "ok"]
      /\ profiles = store
      /\ \A t \in TaskIds : holder[t] = NoProfile

\* C20: a delete of a profile that is active or held by a session is
\* answered ProfileInUse and changes nothing in the store; no session ever
\* holds a profile that has been removed.
C20_DeleteRefusedWhileInUse ==
    /\ [][\A id \in Profiles :
            (/\ reply'.op = "delete" /\ reply'.id = id
             /\ store[id].exists
             /\ store[id].is_active \/ Held(id)) =>
               /\ reply'.res = "ProfileInUse"
               /\ store' = store /\ active' = active]_vars
    /\ [](\A t \in TaskIds : holder[t] # NoProfile => store[holder[t]].exists)

\* A delete refused for a profile that is no longer active but still held
\* by a session opened while it was.
C20_Witness ==
    \E id \in Profiles :
      /\ reply = [op |-> "delete", id |-> id, res |-> "ProfileInUse"]
      /\ store[id].exists /\ ~store[id].is_active /\ Held(id)
\* C21: a task takes the active profile once, in the step that opens its
\* session, and works on that profile until it ends: a change of the active
\* profile changes no task, session, browser context or scene row, no task
\* step changes the active profile, and the context a task drives stays the
\* one opened on the profile it took.
C21_ActiveProfileReadOnce ==
    /\ [][/\ active' # active =>
               /\ pc' = pc /\ sess' = sess /\ holder' = holder
               /\ browser' = browser /\ scenes' = scenes
          /\ \A t \in TaskIds :
               holder'[t] \notin {holder[t], NoProfile} =>
                  /\ pc[t] = "QUEUED" /\ pc'[t] = "SESSION_ACQUIRED"
                  /\ holder'[t] = active /\ active' = active]_vars
    /\ [](\A t \in TaskIds :
            sess[t] # NoPath =>
               /\ holder[t] # NoProfile /\ HasCookieJar(holder[t])
               /\ browser[sess[t]].authed = (AuthCookieCount(holder[t]) >= MinAuthCookies))

\* A task that drives its editor on the profile it took while another
\* profile has since been made active.
C21_Witness ==
    \E t \in TaskIds :
      /\ pc[t] \in Driving /\ holder[t] = "good" /\ active = "stale"
      /\ browser[sess[t]].authed
\* Navigation has got past the handling of the login redirect.
PastLogin == nav.stage \in {"POPUP_CHECK", "CREDIT_CHECK", "DONE"}

C23_CreditFailureNotFatal ==
    /\ nav.reloads <= MaxCreditReloads
    /\ nav.reloads <= nav.site.creditFails
    /\ nav.stage = "FAILED" => nav.res \in {"LoginRequired", "AccountPopupError"}
    /\ nav.stage = "DONE" =>
          /\ nav.res = "ok"
          /\ nav.reloads = IF nav.site.creditFails > MaxCreditReloads
                             THEN MaxCreditReloads ELSE nav.site.creditFails
          /\ nav.warned = (nav.site.creditFails > MaxCreditReloads)
    /\ nav.warned => nav.stage = "DONE"
    /\ \A s \in Scenes : scenes[s].status = "pending"

\* The credit information failed on the first load and after both
\* reloads; navigation ended well with a warning.
C23_Witness ==
    /\ nav.site.creditFails = MaxCreditReloads + 1 /\ nav.reloads = MaxCreditReloads
    /\ nav.warned /\ nav.stage = "DONE" /\ nav.res = "ok"

\* C24: an account popup that is closed successfully, and does not come
\* back, does not fail navigation with AccountPopupError.
C24_DismissedPopupDoesNotFail ==
    nav.dismissed => nav.res # "AccountPopupError"
Statuses == {"pending", "rendering", "completed", "failed"}

C27_RefetchTimerIffActive ==
    /\ [](page.timers = IF hasActiveScenes(page.data) THEN 1 ELSE 0)
    /\ [][(page'.last.ev = "tick" /\ page' # page) =>
             /\ hasActiveScenes(page.data)
             /\ page'.data = FreshScenes]_vars

\* The last tick showed every scene completed or failed: the interval is
\* gone.
C27_Witness ==
    /\ page.last.ev = "tick" /\ page.timers = 0
    /\ \E s \in Scenes : page.data[s] = "completed"
    /\ \E s \in Scenes : page.data[s] = "failed"

C30_OneRequestPerScene ==
    [][\A s \in Scenes :
         (submitted' = submitted + 1 /\ sceneOf'[submitted'] = s) =>
            /\ ~\E u \in TaskIds : pc[u] \in Running /\ sceneOf[u] = s
            /\ scenes[s].status # "completed"]_vars
\* C28: useRenderTask refetches every 2 seconds exactly while the status it
\* last saw is PENDING or STARTED: the interval is 2000 ms then and off for
\* any other status, a refetch by the interval is only made from such a
\* status, and isComplete and isFailed are not both true.
C28_PollsWhilePendingOrStarted ==
    /\ [](\A t \in TaskIds :
            /\ hook[t].interval = IF hook[t].data \in {"PENDING", "STARTED"} THEN 2000 ELSE 0
            /\ ~(isComplete(hook[t].data) /\ isFailed(hook[t].data)))
    /\ [][\A t \in TaskIds :
            (/\ hook'[t].last = "poll"
             /\ [hook'[t] EXCEPT !.server = hook[t].server] # hook[t]) =>
               /\ hook[t].data \in {"PENDING", "STARTED"}
               /\ hook'[t].data \in {hook[t].data, hook[t].server}]_vars

\* One hook has seen its task succeed on a poll and stopped, another still
\* polls a started task, a third status (RETRY) has stopped the polling of
\* a task that is not over.
C28_Witness ==
    \E t, u \in TaskIds :
      /\ hook[t].last = "poll" /\ hook[t].interval = 0
      /\ hook[t].data = "RETRY" \/ isComplete(hook[t].data)
      /\ hook[u].data = "STARTED" /\ hook[u].interval = PollMs
\* The data a step of the wizard needs before it can be opened from an
\* earlier step.
DataGate(stepId) ==
    CASE stepId = "script-preview" -> wizard.script
      [] stepId = "characters" -> wizard.characters = "some"
      [] stepId = "scenes" -> wizard.scenes = "some"
      [] stepId = "review" -> wizard.script /\ wizard.scenes = "some"
      [] OTHER -> FALSE
\* C31: a click in the step indicator on the current or an earlier step
\* always opens it, a click on a later step opens it exactly when that
\* step's data gate holds; Next and Back move the step index by exactly
\* one and keep it within 0..4.
C31_StepNavigation ==
    [][LET from == currentStepIndex
           to == wizard'.last.to
       IN /\ wizard'.last.ev = "click" =>
               currentStepIndex' = IF to <= from \/ DataGate(steps[to + 1]) THEN to ELSE from
          /\ wizard'.last.ev = "next" => currentStepIndex' = from + 1
          /\ wizard'.last.ev = "back" => currentStepIndex' = from - 1
          /\ currentStepIndex' \in 0..4]_vars

\* A click on Review from the first step went through with a script and
\* scenes but no characters.
C31_Witness ==
    /\ wizard.last = [ev |-> "click", from |-> 0, to |-> 4, moved |-> TRUE]
    /\ wizard.currentStep = "review"
    /\ wizard.characters = "empty"
\* C32: whatever is clicked, Next does not carry the wizard onto the review
\* step unless a script exists and the scene list is non-empty, which is
\* what the step indicator asks for before it opens that step.
C32_NextRespectsReviewGate ==
    [][(wizard'.last.ev = "next" /\ wizard'.currentStep = "review") =>
          DataGate("review")]_vars
\* C33: a confirm-login request is sent only when the latest status check
\* that was answered reported both_logged_in = true and no confirm request
\* is on its way; onSuccess and the onClose of the confirmation are called
\* only on an answer with success = true; every end of the request resets
\* confirming.
C33_ConfirmOnlyWhenBothLoggedIn ==
    [][/\ dialog'.last = Did("confirm", "sent") =>
            dialog.reported = "both" /\ ~dialog.confirming
       /\ (dialog'.onSuccess # dialog.onSuccess \/ "confirm" \in dialog'.onClose \ dialog.onClose) =>
            dialog'.last = Did("confirm", "success")
       /\ (dialog'.last.ev = "confirm" /\ dialog'.last.res # "sent") =>
            ~dialog'.confirming]_vars

\* A confirmation was answered with success: onSuccess and onClose have
\* been called once and the dialog is no longer confirming. The status it
\* was sent on said both_logged_in with flow_logged_in false; only the
\* first of the two is read.
C33_Witness ==
    /\ dialog.last = Did("confirm", "success")
    /\ dialog.onSuccess = 1 /\ dialog.onClose = {"confirm"}
    /\ ~dialog.confirming /\ ~dialog.open
    /\ dialog.loginStatus.both_logged_in /\ ~dialog.loginStatus.flow_logged_in

\* C34: flowOpened implies gmailOpened in every state; an open-Flow request
\* is only sent once an open-Gmail request has succeeded, and an open
\* request that fails sets neither flag.
C34_FlowOpenedAfterGmail ==
    /\ [](dialog.flowOpened => dialog.gmailOpened)
    /\ [][/\ dialog'.last = Did("openFlow", "sent") => dialog.gmailOpened
          /\ dialog'.last \in {Did("openGmail", "error"), Did("openFlow", "error")} =>
               /\ dialog'.gmailOpened = dialog.gmailOpened
               /\ dialog'.flowOpened = dialog.flowOpened]_vars

\* Flow has been opened after Gmail, and a later open-Gmail request has
\* failed without taking the flags back.
C34_Witness ==
    /\ dialog.flowOpened /\ dialog.gmailOpened
    /\ dialog.last = Did("openGmail", "error")
\* C35: whatever is fetched, created, updated, deleted or rendered, the
\* scene store never holds two entries with the same scene id.
C35_NoDuplicateSceneIds ==
    \A i, j \in 1..Len(sceneStore.scenes) :
       i # j => sceneStore.scenes[i].id # sceneStore.scenes[j].id
\* C36: deleteProject(id) removes exactly the projects with that id and
\* keeps the others in their order, and makes currentProject null exactly
\* when its id is id; updateProject(id, u) changes only the projects with
\* that id and applies u to currentProject exactly when its id is id.
C36_DeleteAndUpdateTouchOnlyId ==
    [][LET old == projectStore
           new == projectStore'
           id == new.last.id
           u == new.last.updates
           kept == {i \in 1..Len(old.projects) : old.projects[i].id # id}
       IN /\ new.last.op = "deleteProject" =>
               /\ Len(new.projects) = Cardinality(kept)
               /\ \E f \in [1..Len(new.projects) -> kept] :
                    /\ \A k, l \in DOMAIN f : k < l => f[k] < f[l]
                    /\ \A k \in DOMAIN f : new.projects[k] = old.projects[f[k]]
               /\ (new.currentProject = NoCurrent) <=>
                    (old.currentProject = NoCurrent \/ old.currentProject.id = id)
               /\ new.currentProject # NoCurrent => new.currentProject = old.currentProject
          /\ new.last.op = "updateProject" =>
               /\ Len(new.projects) = Len(old.projects)
               /\ \A i \in 1..Len(old.projects) :
                    /\ old.projects[i].id # id => new.projects[i] = old.projects[i]
                    /\ old.projects[i].id = id =>
                         \A f \in {"id", "name"} :
                            new.projects[i][f] = IF f \in DOMAIN u THEN u[f]
                                                 ELSE old.projects[i][f]
               /\ old.currentProject.id # id => new.currentProject = old.currentProject
               /\ old.currentProject.id = id =>
                    \A f \in {"id", "name"} :
                       new.currentProject[f] = IF f \in DOMAIN u THEN u[f]
                                               ELSE old.currentProject[f]]_vars

\* deleteProject("p1") has left two different projects of the other id in
\* the list and no current project.
C36_Witness ==
    /\ projectStore.last.op = "deleteProject" /\ projectStore.last.id = "p1"
    /\ Len(projectStore.projects) = 2
    /\ projectStore.projects[1] # projectStore.projects[2]
    /\ projectStore.currentProject = NoCurrent
====
